---- MODULE Spec2Model ----
(***************************************************************************)
(* The in-memory game-room state machine of src/socket-server.js: the      *)
(* registry gameRooms and the seven socket handlers createRoom, joinRoom,  *)
(* joinTeam, startGame, requestCard, declareSet and claimTurn, with the    *)
(* helpers they call.                                                      *)
(*                                                                         *)
(* JavaScript values are modelled as follows.  An object is a record whose *)
(* DOMAIN is the set of properties that have been assigned; reading a      *)
(* property that was never assigned yields undefined, which is modelled    *)
(* by testing the DOMAIN (Has).  An array is a sequence.  socket.id is a   *)
(* string.                                                                 *)
(***************************************************************************)
EXTENDS Integers, Sequences, FiniteSets, TLC

VARIABLES
  rooms,     \* gameRooms: room name -> room object
  emitted,   \* the event the last handler call emitted, and to whom
  running,   \* FALSE once the process has exited
  requests   \* number of card requests accepted so far (bounds the search)

vars == <<rooms, emitted, running, requests>>

(* ---------------------------------------------------------------- bounds *)

\* most entries of room.players the model lets a room grow to
MaxPlayers == 8

\* most accepted card requests the model follows in one game
MaxRequests == 3

\* one connection more than a room holds, so that one is never a player
NumSockets == MaxPlayers + 1

(* --------------------------------------------------------------- inputs *)

SockId(i) == "s" \o ToString(i)

Sockets == { SockId(i) : i \in 1..NumSockets }

RoomNames == {"r1"}

\* the playerCount payloads of createRoom the model draws
Capacities == {2, 8}

\* the team payloads of joinTeam the model draws
TeamInputs == {"red", "blue"}

NameOf(s) == "P" \o s

Null == "null"

(* ---------------------------------------------------------------- cards *)

suits == <<"hearts", "diamonds", "clubs", "spades">>

lowerRanks == <<"ace", "2", "3", "4", "5", "6">>

upperRanks == <<"8", "9", "10", "jack", "queen", "king">>

SetTypes == {"lower", "upper"}

SuitSet == { suits[i] : i \in 1..Len(suits) }

RanksOf(setType) == IF setType = "lower" THEN lowerRanks ELSE upperRanks

Card(suit, rank, setType) == [suit |-> suit, rank |-> rank, setType |-> setType]

AllCards ==
  { Card(su, RanksOf(st)[i], st) : su \in SuitSet, st \in SetTypes, i \in 1..6 }

\* the deck before the shuffle: the lower cards suit by suit, then the upper
OrderedDeck ==
  [ k \in 1..(2 * Len(suits) * 6) |->
      LET n  == Len(suits) * 6
          st == IF k <= n THEN "lower" ELSE "upper"
          m  == IF k <= n THEN k - 1 ELSE k - 1 - n
      IN  Card(suits[(m \div 6) + 1], RanksOf(st)[(m % 6) + 1], st) ]

\* Math.floor(Math.random() * (i + 1)) for the generators the model draws
RandomSources == {"keep", "zero", "half", "mix"}

RandomIndex(src, i) ==
  CASE src = "keep" -> i
    [] src = "zero" -> 0
    [] src = "half" -> i \div 2
    [] OTHER        -> (7 * i + 3) % (i + 1)

Swap(deck, a, b) == [deck EXCEPT ![a] = deck[b], ![b] = deck[a]]

\* the Fisher-Yates loop, i counting down from deck.length - 1 to 1 (0-based)
RECURSIVE ShuffleFrom(_, _, _)
ShuffleFrom(deck, i, src) ==
  IF i <= 0 THEN deck
  ELSE ShuffleFrom(Swap(deck, i + 1, RandomIndex(src, i) + 1), i - 1, src)

createAndShuffleDeck(src) == ShuffleFrom(OrderedDeck, Len(OrderedDeck) - 1, src)

(* ------------------------------------------------------------- JS values *)

Has(obj, prop) == prop \in DOMAIN obj

Min(a, b) == IF a <= b THEN a ELSE b

SeqToSet(s) == { s[i] : i \in 1..Len(s) }

\* array.findIndex(p => p.id === id), 1-based, 0 when absent
RECURSIVE FindIndexFrom(_, _, _)
FindIndexFrom(players, id, i) ==
  IF i > Len(players) THEN 0
  ELSE IF players[i].id = id THEN i
  ELSE FindIndexFrom(players, id, i + 1)

FindPlayer(players, id) == FindIndexFrom(players, id, 1)

ErrorTo(msg) == [ev |-> "error", to |-> "actor", msg |-> msg]

ActorEvent(ev) == [ev |-> ev, to |-> "actor", msg |-> ""]

RoomEvent(ev) == [ev |-> ev, to |-> "room", msg |-> ""]

NoEvent == [ev |-> "none", to |-> "none", msg |-> ""]

\* a refusal that is sent to the room
RejectToRoom(e) == /\ emitted' = [e EXCEPT !.to = "room"]
                   /\ UNCHANGED <<rooms, running, requests>>

\* socket.emit of the error, then return: nothing else is touched
Reject(e) == /\ emitted' = e
             /\ UNCHANGED <<rooms, running, requests>>

(* ------------------------------------------------------------ createRoom *)

HostPlayer(s, playerName) ==
  [id |-> s, name |-> playerName, socketId |-> s, team |-> Null,
   hand |-> <<>>, isHost |-> TRUE]

NewRoom(s, playerName, roomName, playerCount) ==
  [name         |-> roomName,
   players      |-> <<HostPlayer(s, playerName)>>,
   maxPlayers   |-> playerCount,
   status       |-> "waiting",
   teams        |-> [A |-> <<>>, B |-> <<>>],
   currentTurn  |-> Null,
   deck         |-> <<>>,
   capturedSets |-> [kind |-> "object", A |-> <<>>, B |-> <<>>],
   lastAction   |-> Null]

\* a createRoom that does not look for the name in the registry
CreateRoomOverExisting(s, playerName, roomName, playerCount) ==
  /\ running
  /\ IF playerName = "" \/ roomName = ""
       THEN Reject([ev |-> "error:createRoom", to |-> "actor",
                    msg |-> "Player name and room name are required"])
     ELSE /\ rooms' = [n \in DOMAIN rooms \cup {roomName} |->
                         IF n = roomName
                           THEN NewRoom(s, playerName, roomName, playerCount)
                           ELSE rooms[n]]
          /\ emitted' = ActorEvent("roomCreated")
          /\ UNCHANGED <<running, requests>>

CreateRoom(s, playerName, roomName, playerCount) ==
  /\ running
  /\ IF playerName = "" \/ roomName = ""
       THEN Reject([ev |-> "error:createRoom", to |-> "actor",
                    msg |-> "Player name and room name are required"])
     ELSE IF roomName \in DOMAIN rooms
       THEN Reject([ev |-> "error:createRoom", to |-> "actor",
                    msg |-> "Room already exists"])
     ELSE /\ rooms' = [n \in DOMAIN rooms \cup {roomName} |->
                         IF n = roomName
                           THEN NewRoom(s, playerName, roomName, playerCount)
                           ELSE rooms[n]]
          /\ emitted' = ActorEvent("roomCreated")
          /\ UNCHANGED <<running, requests>>

(* -------------------------------------------------------------- joinRoom *)

\* room.players.length >= room.playerCount; a comparison with undefined is false
RoomIsFull(room) ==
  IF Has(room, "playerCount") THEN Len(room.players) >= room.playerCount
  ELSE FALSE

JoinedPlayer(s, playerName) ==
  [id |-> s, name |-> playerName, hand |-> <<>>, team |-> "unassigned",
   connected |-> TRUE, canClaimTurn |-> FALSE]

JoinRoom(s, playerName, roomName) ==
  /\ running
  /\ IF roomName \notin DOMAIN rooms
       THEN Reject(ErrorTo("Room not found"))
     ELSE IF RoomIsFull(rooms[roomName])
       THEN Reject(ErrorTo("Room is full"))
     ELSE /\ rooms' = [rooms EXCEPT ![roomName].players =
                         Append(@, JoinedPlayer(s, playerName))]
          /\ emitted' = ActorEvent("joinedRoom")
          /\ UNCHANGED <<running, requests>>

(* -------------------------------------------------------------- joinTeam *)

\* a joinTeam that sets the team of the connection's player in every room
JoinTeamInEveryRoom(s, roomName, team) ==
  /\ running
  /\ IF roomName \notin DOMAIN rooms
       THEN Reject(ErrorTo("Room not found"))
     ELSE LET i == FindPlayer(rooms[roomName].players, s) IN
       IF i = 0
         THEN Reject(ErrorTo("Player not found"))
       ELSE /\ rooms' = [n \in DOMAIN rooms |->
                           LET k == FindPlayer(rooms[n].players, s) IN
                           IF k = 0 THEN rooms[n]
                           ELSE [rooms[n] EXCEPT !.players[k].team = team]]
            /\ emitted' = RoomEvent("roomUpdate")
            /\ UNCHANGED <<running, requests>>

JoinTeam(s, roomName, team) ==
  /\ running
  /\ IF roomName \notin DOMAIN rooms
       THEN Reject(ErrorTo("Room not found"))
     ELSE LET i == FindPlayer(rooms[roomName].players, s) IN
       IF i = 0
         THEN Reject(ErrorTo("Player not found"))
       ELSE /\ rooms' = [rooms EXCEPT ![roomName].players[i].team = team]
            /\ emitted' = RoomEvent("roomUpdate")
            /\ UNCHANGED <<running, requests>>

(* ------------------------------------------------------------- startGame *)

\* socket.id !== room.adminId; a string never equals undefined
NotAdmin(room, s) ==
  IF Has(room, "adminId") THEN s # room.adminId ELSE TRUE

\* room.players.length !== room.playerCount
NotFull(room) ==
  IF Has(room, "playerCount") THEN Len(room.players) # room.playerCount
  ELSE TRUE

TeamCount(players, team) ==
  Cardinality({ i \in 1..Len(players) : players[i].team = team })

\* redTeam.length !== blueTeam.length
Unbalanced(room) ==
  TeamCount(room.players, "red") # TeamCount(room.players, "blue")

\* a deal that reads the top of the deck without taking it: deck.slice(0, 6)
DealtHandBySlice(deck, k) == SubSeq(deck, 1, Min(6, Len(deck)))

\* the hand of the k-th player: deck.splice(0, 6) after k - 1 earlier splices
DealtHand(deck, k) ==
  SubSeq(deck, Min(6 * (k - 1), Len(deck)) + 1, Min(6 * k, Len(deck)))

\* what is left of the local deck after n splices
DeckRemainder(deck, n) ==
  SubSeq(deck, Min(6 * n, Len(deck)) + 1, Len(deck))

DealTo(players, deck) ==
  [k \in 1..Len(players) |-> [players[k] EXCEPT !.hand = DealtHand(deck, k)]]

SetProp(obj, prop, val) ==
  [p \in DOMAIN obj \cup {prop} |-> IF p = prop THEN val ELSE obj[p]]

\* lines 406-414: deal, set the initial turn, set gameStatus
StartGameEffect(room, src) ==
  LET dealt == DealTo(room.players, createAndShuffleDeck(src))
      r1    == [room EXCEPT !.players = dealt]
      r2    == SetProp(r1, "currentTurnPlayerId", dealt[1].id)
  IN  SetProp(r2, "gameStatus", "playing")

\* startGame as it would be with its guards reading the host and the capacity
\* that createRoom stores
StartGameByStoredFields(s, roomName) ==
  /\ running
  /\ IF roomName \notin DOMAIN rooms
       THEN Reject(ErrorTo("Room not found"))
     ELSE IF s # rooms[roomName].players[1].id
       THEN Reject(ErrorTo("Only the admin can start the game"))
     ELSE IF Len(rooms[roomName].players) # rooms[roomName].maxPlayers
       THEN Reject(ErrorTo("Room is not full"))
     ELSE IF Unbalanced(rooms[roomName])
       THEN Reject(ErrorTo("Teams must be balanced"))
     ELSE /\ \E src \in RandomSources :
               rooms' = [rooms EXCEPT ![roomName] = StartGameEffect(@, src)]
          /\ emitted' = RoomEvent("gameStarted")
          /\ UNCHANGED <<running, requests>>

StartGame(s, roomName) ==
  /\ running
  /\ IF roomName \notin DOMAIN rooms
       THEN Reject(ErrorTo("Room not found"))
     ELSE IF NotAdmin(rooms[roomName], s)
       THEN Reject(ErrorTo("Only the admin can start the game"))
     ELSE IF NotFull(rooms[roomName])
       THEN Reject(ErrorTo("Room is not full"))
     ELSE IF Unbalanced(rooms[roomName])
       THEN Reject(ErrorTo("Teams must be balanced"))
     ELSE /\ \E src \in RandomSources :
               rooms' = [rooms EXCEPT ![roomName] = StartGameEffect(@, src)]
          /\ emitted' = RoomEvent("gameStarted")
          /\ UNCHANGED <<running, requests>>

(* ----------------------------------------------------------- requestCard *)

HandHas(hand, card) == \E i \in 1..Len(hand) : hand[i] = card

HandHasSet(hand, suit, setType) ==
  \E i \in 1..Len(hand) : hand[i].suit = suit /\ hand[i].setType = setType

\* the validity check without its last test
isValidRequestHeldAllowed(requestingPlayer, targetPlayer, requestedCard) ==
  IF requestingPlayer.id = targetPlayer.id THEN FALSE
  ELSE IF requestingPlayer.team = targetPlayer.team THEN FALSE
  ELSE IF Len(requestingPlayer.hand) = 0 THEN FALSE
  ELSE IF Len(targetPlayer.hand) = 0 THEN FALSE
  ELSE IF ~HandHasSet(requestingPlayer.hand, requestedCard.suit,
                      requestedCard.setType) THEN FALSE
  ELSE TRUE

isValidRequest(requestingPlayer, targetPlayer, requestedCard) ==
  IF requestingPlayer.id = targetPlayer.id THEN FALSE
  ELSE IF requestingPlayer.team = targetPlayer.team THEN FALSE
  ELSE IF Len(requestingPlayer.hand) = 0 THEN FALSE
  ELSE IF Len(targetPlayer.hand) = 0 THEN FALSE
  ELSE IF ~HandHasSet(requestingPlayer.hand, requestedCard.suit,
                      requestedCard.setType) THEN FALSE
  ELSE IF HandHas(requestingPlayer.hand, requestedCard) THEN FALSE
  ELSE TRUE

\* hand.findIndex(card => ...), 1-based, 0 when absent
RECURSIVE CardIndexFrom(_, _, _)
CardIndexFrom(hand, card, i) ==
  IF i > Len(hand) THEN 0
  ELSE IF hand[i] = card THEN i
  ELSE CardIndexFrom(hand, card, i + 1)

RemoveAt(seq, i) == SubSeq(seq, 1, i - 1) \o SubSeq(seq, i + 1, Len(seq))

\* a transfer that copies the card and leaves it with its holder
transferCardByCopy(players, from, to, card) ==
  LET cardIndex == CardIndexFrom(players[from].hand, card, 1) IN
  IF cardIndex = 0 THEN players
  ELSE [players EXCEPT ![to].hand = Append(@, players[from].hand[cardIndex])]

\* the players after transferCard(players[from], players[to], card)
transferCard(players, from, to, card) ==
  LET cardIndex == CardIndexFrom(players[from].hand, card, 1) IN
  IF cardIndex = 0 THEN players
  ELSE LET taken   == players[from].hand[cardIndex]
           removed == [players EXCEPT ![from].hand = RemoveAt(@, cardIndex)]
       IN  [removed EXCEPT ![to].hand = Append(@, taken)]

GotMessage(requester, target, card) ==
  requester.name \o " got the " \o card.rank \o " of " \o card.suit
    \o " from " \o target.name

MissMessage(requester, target, card) ==
  requester.name \o " asked " \o target.name \o " for the " \o card.rank
    \o " of " \o card.suit \o " but they didn't have it"

\* a turn check that lets everyone through while no turn has been set
NotTurnOfWhenSet(room, id) ==
  Has(room, "currentTurnPlayerId") /\ id # room.currentTurnPlayerId

\* requestingPlayer.id !== room.currentTurnPlayerId
NotTurnOf(room, id) ==
  IF Has(room, "currentTurnPlayerId") THEN id # room.currentTurnPlayerId
  ELSE TRUE

\* an accepted request after which the requester keeps the turn
RequestEffectKeepingTurn(room, ri, ti, card) ==
  LET requester == room.players[ri]
      target    == room.players[ti]
      hasCard   == HandHas(target.hand, card)
      moved     == IF hasCard THEN transferCard(room.players, ti, ri, card)
                   ELSE room.players
      logged    == [room EXCEPT !.players = moved,
                                !.lastAction =
                                   IF hasCard
                                     THEN GotMessage(requester, target, card)
                                     ELSE MissMessage(requester, target, card)]
  IN  SetProp(logged, "currentTurnPlayerId",
              IF hasCard THEN requester.id ELSE target.id)

\* lines 447-460: the room after an accepted request
RequestEffect(room, ri, ti, card) ==
  LET requester == room.players[ri]
      target    == room.players[ti]
      hasCard   == HandHas(target.hand, card)
      moved     == IF hasCard THEN transferCard(room.players, ti, ri, card)
                   ELSE room.players
      logged    == [room EXCEPT !.players = moved,
                                !.lastAction =
                                   IF hasCard
                                     THEN GotMessage(requester, target, card)
                                     ELSE MissMessage(requester, target, card)]
  IN  SetProp(logged, "currentTurnPlayerId", target.id)

RequestCard(s, roomName, targetPlayerId, card) ==
  /\ running
  /\ IF roomName \notin DOMAIN rooms
       THEN Reject(ErrorTo("Room not found"))
     ELSE LET room == rooms[roomName]
              ri   == FindPlayer(room.players, s)
              ti   == FindPlayer(room.players, targetPlayerId)
          IN
       IF ri = 0 \/ ti = 0
         THEN Reject(ErrorTo("Player not found"))
       ELSE IF NotTurnOf(room, room.players[ri].id)
         THEN Reject(ErrorTo("Not your turn"))
       ELSE IF ~isValidRequest(room.players[ri], room.players[ti], card)
         THEN Reject(ErrorTo("Invalid card request"))
       ELSE /\ rooms' = [rooms EXCEPT ![roomName] =
                           RequestEffect(room, ri, ti, card)]
            /\ emitted' = RoomEvent("gameUpdate")
            /\ requests' = requests + 1
            /\ UNCHANGED running

(* ------------------------------------------------------------ declareSet *)

\* the cards of the players of a team: players.filter(...).flatMap(p => p.hand)
TeamCards(players, team) ==
  UNION { SeqToSet(players[i].hand) :
            i \in { k \in 1..Len(players) : players[k].team = team } }

teamHasCompleteSet(players, team, suit, setType) ==
  \A i \in 1..6 : Card(suit, RanksOf(setType)[i], setType) \in TeamCards(players, team)

CountTeam(captured, team) ==
  Cardinality({ i \in 1..Len(captured) : captured[i].team = team })

\* a win evaluation in which the leading team need not be strictly ahead
checkWinConditionNotStrict(captured) ==
  LET redSets  == CountTeam(captured, "red")
      blueSets == CountTeam(captured, "blue")
  IN  IF redSets >= 3 /\ redSets >= blueSets THEN "red"
      ELSE IF blueSets >= 3 /\ blueSets >= redSets THEN "blue"
      ELSE IF redSets >= 3 /\ blueSets >= 3 /\ redSets = blueSets THEN "draw"
      ELSE Null

checkWinCondition(captured) ==
  LET redSets  == CountTeam(captured, "red")
      blueSets == CountTeam(captured, "blue")
  IN  IF redSets >= 3 /\ redSets > blueSets THEN "red"
      ELSE IF blueSets >= 3 /\ blueSets > redSets THEN "blue"
      ELSE IF redSets >= 3 /\ blueSets >= 3 /\ redSets = blueSets THEN "draw"
      ELSE Null

\* a successor that does not go round: after the last player comes nobody
getNextPlayerNoWrap(currentPlayerId, players) ==
  LET nextIndex == FindPlayer(players, currentPlayerId) + 1
  IN  IF nextIndex <= Len(players) THEN players[nextIndex]
      ELSE [id |-> "nobody"]

\* players[(findIndex + 1) % players.length]; findIndex is -1 when absent
getNextPlayer(currentPlayerId, players) ==
  players[(((FindPlayer(players, currentPlayerId) - 1) + 1) % Len(players)) + 1]

\* room.capturedSets.push exists only when capturedSets is an array
CanPush(room) == room.capturedSets.kind = "array"

CorrectMessage(p, suit, setType) ==
  p.name \o " correctly declared the " \o setType \o " " \o suit
    \o " set for the " \o p.team \o " team"

WrongMessage(p, suit, setType, opposingTeam) ==
  p.name \o " incorrectly declared the " \o setType \o " " \o suit
    \o " set, giving it to the " \o opposingTeam \o " team"

\* lines 483-502: the entry pushed and the log line
DeclareRecorded(room, di, suit, setType) ==
  LET p            == room.players[di]
      isCorrect    == teamHasCompleteSet(room.players, p.team, suit, setType)
      opposingTeam == IF p.team = "red" THEN "blue" ELSE "red"
      entry        == [team |-> IF isCorrect THEN p.team ELSE opposingTeam,
                       suit |-> suit, setType |-> setType]
  IN  [room EXCEPT !.capturedSets.items = Append(@, entry),
                   !.lastAction =
                      IF isCorrect THEN CorrectMessage(p, suit, setType)
                      ELSE WrongMessage(p, suit, setType, opposingTeam)]

\* lines 504-513: the win check, then either the end of the game or the next turn
DeclareEffect(room, di, suit, setType) ==
  LET recorded == DeclareRecorded(room, di, suit, setType)
      winner   == checkWinCondition(recorded.capturedSets.items)
  IN  IF winner # Null
        THEN SetProp(SetProp(recorded, "gameStatus", "finished"), "winner", winner)
      ELSE SetProp(recorded, "currentTurnPlayerId",
                   getNextPlayer(room.players[di].id, room.players).id)

\* a TypeError thrown in a handler reaches the uncaughtException handler
\* (lines 588-592), which ends the process and with it the registry
EmptyRegistry == [n \in {} |-> Null]

ProcessExit ==
  /\ running' = FALSE
  /\ rooms' = EmptyRegistry
  /\ emitted' = [ev |-> "exit", to |-> "process", msg |-> "Uncaught Exception"]
  /\ UNCHANGED requests

DeclareSet(s, roomName, suit, setType) ==
  /\ running
  /\ IF roomName \notin DOMAIN rooms
       THEN Reject(ErrorTo("Room not found"))
     ELSE LET room == rooms[roomName]
              di   == FindPlayer(room.players, s)
          IN
       IF di = 0
         THEN Reject(ErrorTo("Player not found"))
       ELSE IF NotTurnOf(room, room.players[di].id)
         THEN Reject(ErrorTo("Not your turn"))
       ELSE IF ~CanPush(room)
         THEN ProcessExit
       ELSE /\ rooms' = [rooms EXCEPT ![roomName] =
                           DeclareEffect(room, di, suit, setType)]
            /\ emitted' = RoomEvent("gameUpdate")
            /\ UNCHANGED <<running, requests>>

(* ------------------------------------------------------------- claimTurn *)

\* a check that refuses only a flag that is there and false
CannotClaimWhenFalse(player) ==
  Has(player, "canClaimTurn") /\ ~player.canClaimTurn

\* !player.canClaimTurn; undefined is falsy
CannotClaim(player) ==
  IF Has(player, "canClaimTurn") THEN ~player.canClaimTurn ELSE TRUE

ClaimTurn(s, roomName) ==
  /\ running
  /\ IF roomName \notin DOMAIN rooms
       THEN Reject(ErrorTo("Room not found"))
     ELSE LET room == rooms[roomName]
              i    == FindPlayer(room.players, s)
          IN
       IF i = 0
         THEN Reject(ErrorTo("Player not found"))
       ELSE IF CannotClaim(room.players[i])
         THEN Reject(ErrorTo("You cannot claim the turn"))
       ELSE /\ rooms' = [rooms EXCEPT ![roomName] =
                           SetProp([room EXCEPT !.players[i].canClaimTurn = FALSE],
                                   "currentTurnPlayerId", room.players[i].id)]
            /\ emitted' = RoomEvent("gameUpdate")
            /\ UNCHANGED <<running, requests>>

(* ------------------------------------------------- the server, from start *)

Init ==
  /\ rooms = EmptyRegistry
  /\ emitted = NoEvent
  /\ running = TRUE
  /\ requests = 0

\* connections are numbered in the order in which they arrive at a room:
\* the creator is s1 and the n-th entry of players is made by sn
Arrives(s, roomName) ==
  IF roomName \in DOMAIN rooms
    THEN /\ Len(rooms[roomName].players) < MaxPlayers
         /\ s = SockId(Len(rooms[roomName].players) + 1)
    ELSE s = SockId(1)

\* the teams a connection asks for: the first two connections either team,
\* the others red when odd and blue when even
TeamChoices(i) ==
  IF i <= 2 THEN TeamInputs
  ELSE IF i % 2 = 1 THEN {"red"} ELSE {"blue"}

\* the cards the model's requests name
AskCards ==
  { Card("hearts", "ace", "lower"), Card("hearts", "6", "lower"),
    Card("spades", "king", "upper"), Card("clubs", "3", "lower") }

\* the players the model's requests are addressed to, one of them never a player
AskTargets == { SockId(i) : i \in 1..3 } \cup {SockId(NumSockets)}

\* the sets the model's declarations name
DeclareInputs == {<<"hearts", "lower">>, <<"spades", "upper">>, <<"clubs", "lower">>}

\* the first k connections
Conns(k) == { SockId(i) : i \in 1..k }

DoCreateRoom(capacities) ==
  \E s \in {SockId(1), SockId(2)}, roomName \in RoomNames \cup {""},
     c \in capacities :
     \E playerName \in {"", NameOf(s)} :
        /\ roomName \in DOMAIN rooms \/ s = SockId(1)
        /\ CreateRoom(s, playerName, roomName, c)

DoJoinRoom(k) ==
  \E s \in Conns(k), roomName \in RoomNames :
     /\ Arrives(s, roomName)
     /\ JoinRoom(s, NameOf(s), roomName)

DoJoinTeam(k) ==
  \E i \in 1..k, roomName \in RoomNames :
     \E team \in TeamChoices(i) : JoinTeam(SockId(i), roomName, team)

DoStartGame(k) ==
  \E s \in Conns(k), roomName \in RoomNames : StartGame(s, roomName)

DoRequestCard(k) ==
  \E s \in Conns(k), roomName \in RoomNames, t \in AskTargets, card \in AskCards :
     /\ requests < MaxRequests
     /\ RequestCard(s, roomName, t, card)

DoDeclareSet(k) ==
  \E s \in Conns(k), roomName \in RoomNames, d \in DeclareInputs :
     DeclareSet(s, roomName, d[1], d[2])

DoClaimTurn(k) ==
  \E s \in Conns(k), roomName \in RoomNames : ClaimTurn(s, roomName)

Next ==
  \/ DoCreateRoom(Capacities)
  \/ DoJoinRoom(NumSockets)
  \/ DoJoinTeam(NumSockets)
  \/ DoStartGame(NumSockets)
  \/ DoRequestCard(NumSockets)
  \/ DoDeclareSet(NumSockets)
  \/ DoClaimTurn(NumSockets)

Spec == Init /\ [][Next]_vars

(* ------------------------------------------- the game handlers, on a deal *)
(* startGame's guard on room.adminId lets no call through, so the code      *)
(* after it runs in no execution of the server.  PlaySpec applies the      *)
(* handlers to the rooms that code is written for: a room built by         *)
(* createRoom and joinRoom for as many players as the deck deals to, the    *)
(* teams chosen by joinTeam, and lines 406-414 of startGame applied to it.  *)

DealtPlayers == Len(OrderedDeck) \div 6

SeatTeam(i, first) ==
  IF i % 2 = 1 THEN first ELSE IF first = "red" THEN "blue" ELSE "red"

\* the room after createRoom by s1, joinRoom by s2..sn and a joinTeam by each
SeatedRoom(n, first) ==
  LET created == NewRoom(SockId(1), NameOf(SockId(1)), "r1", n) IN
  [created EXCEPT !.players =
     [i \in 1..n |->
        [(IF i = 1 THEN created.players[1]
          ELSE JoinedPlayer(SockId(i), NameOf(SockId(i))))
         EXCEPT !.team = SeatTeam(i, first)]]]

PlayInit ==
  \E src \in RandomSources, first \in TeamInputs,
     n \in {DealtPlayers, DealtPlayers + 1} :
     /\ rooms = [name \in {"r1"} |->
                   StartGameEffect(SeatedRoom(n, first), src)]
     /\ emitted = RoomEvent("gameStarted")
     /\ running = TRUE
     /\ requests = 0

PlayNext ==
  \/ DoStartGame(NumSockets)
  \/ DoRequestCard(NumSockets)
  \/ DoDeclareSet(NumSockets)
  \/ DoClaimTurn(NumSockets)

PlaySpec == PlayInit /\ [][PlayNext]_vars

(* ================================================================ claims *)

\* the player who created the room
HostId(room) == room.players[1].id

TeamsOf(room) == { room.players[i].team : i \in 1..Len(room.players) }

\* a room carries the game status once startGame has written it
GameStatusIs(room, value) == Has(room, "gameStatus") /\ room.gameStatus = value

TurnIs(room, id) ==
  Has(room, "currentTurnPlayerId") /\ room.currentTurnPlayerId = id

\* what a startGame call emits
StartGameEvents ==
  { ErrorTo("Room not found"), ErrorTo("Only the admin can start the game"),
    ErrorTo("Room is not full"), ErrorTo("Teams must be balanced"),
    RoomEvent("gameStarted") }

\* a room of capacity 8 that is full, with four players on each team
NormalCase(roomName) ==
  /\ roomName \in DOMAIN rooms
  /\ rooms[roomName].maxPlayers = 8
  /\ Len(rooms[roomName].players) = 8
  /\ TeamCount(rooms[roomName].players, "red") = 4
  /\ TeamCount(rooms[roomName].players, "blue") = 4

\* C1: in a full room of capacity 8 with teams of four and four, a startGame
\* issued by the host is accepted: the room is then playing, the turn is the
\* first player's, and every hand has six cards.
C1_HostStartsFullRoom ==
  [][ \A roomName \in RoomNames :
        ( /\ emitted' \in StartGameEvents
          /\ NormalCase(roomName)
          /\ StartGame(HostId(rooms[roomName]), roomName) )
        => /\ emitted'.ev = "gameStarted"
           /\ GameStatusIs(rooms'[roomName], "playing")
           /\ TurnIs(rooms'[roomName], rooms'[roomName].players[1].id)
           /\ \A i \in 1..Len(rooms'[roomName].players) :
                 Len(rooms'[roomName].players[i].hand) = 6 ]_vars

(* ------------------------------------------- a few clients that keep on *)

\* the connections of the small server on which progress is checked; its
\* rooms are created for one player fewer
FewConns == 3

FewNext ==
  \/ DoCreateRoom({FewConns - 1})
  \/ DoJoinRoom(FewConns)
  \/ DoJoinTeam(FewConns)
  \/ DoStartGame(FewConns)
  \/ DoRequestCard(FewConns)
  \/ DoDeclareSet(FewConns)
  \/ DoClaimTurn(FewConns)

\* Clients keep playing: an action that the server would accept again and
\* again is accepted again and again.
KeepPlaying ==
  /\ SF_vars(DoCreateRoom({FewConns - 1}) /\ emitted'.ev = "roomCreated")
  /\ SF_vars(DoJoinRoom(FewConns) /\ emitted'.ev = "joinedRoom")
  /\ \A i \in 1..FewConns : \A team \in TeamChoices(i) :
        SF_vars(\E roomName \in RoomNames :
                  JoinTeam(SockId(i), roomName, team) /\ emitted'.ev = "roomUpdate")
  /\ SF_vars(DoStartGame(FewConns) /\ emitted'.ev = "gameStarted")
  /\ SF_vars(DoRequestCard(FewConns) /\ emitted'.ev = "gameUpdate")
  /\ SF_vars(DoDeclareSet(FewConns) /\ emitted'.ev = "gameUpdate")

FairSpec == Init /\ [][FewNext]_vars /\ KeepPlaying

\* a room is finished and its winner is one of the two teams
Completed(roomName) ==
  /\ roomName \in DOMAIN rooms
  /\ GameStatusIs(rooms[roomName], "finished")
  /\ Has(rooms[roomName], "winner")
  /\ rooms[roomName].winner \in {"red", "blue"}

\* C2: a complete game can be played: with clients that keep creating,
\* joining, choosing teams, starting, requesting and declaring, some room
\* ends finished with a team as its winner.
C2_GameCompletes == <>(\E roomName \in RoomNames : Completed(roomName))

\* C3: no room has more players than the capacity given to createRoom.
C3_PlayersWithinCapacity ==
  \A roomName \in DOMAIN rooms :
     Len(rooms[roomName].players) <= rooms[roomName].maxPlayers

\* the conditions of startGame: the actor is the host, the room is full, every
\* player is on one of the two teams and the teams are of equal size
ReadyToStart(room, s) ==
  /\ s = HostId(room)
  /\ Len(room.players) = room.maxPlayers
  /\ TeamsOf(room) \subseteq {"red", "blue"}
  /\ TeamCount(room.players, "red") = TeamCount(room.players, "blue")

\* C8: a startGame is accepted only when every condition holds; a call for
\* which one of them fails is rejected.
C8_StartGameRejectedUnlessReady ==
  [][ \A s \in Sockets, roomName \in RoomNames :
        ( /\ emitted'.ev = "gameStarted"
          /\ roomName \in DOMAIN rooms
          /\ StartGame(s, roomName) )
        => ReadyToStart(rooms[roomName], s) ]_vars

\* C8 witness: a startGame has been rejected in a room with an unassigned player
C8_RejectedWithUnassigned ==
  \E roomName \in DOMAIN rooms :
     /\ emitted = ErrorTo("Only the admin can start the game")
     /\ "unassigned" \in TeamsOf(rooms[roomName])

HandOf(room, i) == SeqToSet(room.players[i].hand)

\* the places, player and position in the hand, at which a card is held
PlacesOf(room, card) ==
  { <<i, j>> \in (1..Len(room.players)) \X (1..(2 * Len(OrderedDeck))) :
       j <= Len(room.players[i].hand) /\ room.players[i].hand[j] = card }

PlacesHeld(room) ==
  { <<i, j>> \in (1..Len(room.players)) \X (1..(2 * Len(OrderedDeck))) :
       j <= Len(room.players[i].hand) }

\* a room in which a game for the full deck has been dealt
DealtRoom(roomName) ==
  /\ roomName \in DOMAIN rooms
  /\ Len(rooms[roomName].players) = DealtPlayers
  /\ Has(rooms[roomName], "currentTurnPlayerId")

\* C6: after the deal to 8 players and any requests, every one of the 48 cards
\* is at exactly one place in exactly one hand, so the hands hold 48 cards.
C6_CardsConserved ==
  \A roomName \in RoomNames :
     DealtRoom(roomName)
     => /\ \A card \in AllCards : Cardinality(PlacesOf(rooms[roomName], card)) = 1
        /\ Cardinality(PlacesHeld(rooms[roomName])) = 48

\* C6 witness: requests have been accepted and a card has changed hands
C6_CardChangedHands ==
  \E roomName \in RoomNames :
     /\ DealtRoom(roomName)
     /\ requests >= 1
     /\ \E i \in 1..DealtPlayers : Len(rooms[roomName].players[i].hand) = 7

\* C7: right after the deal to 8 players the hands partition the deck: six
\* cards each, no card twice, every card of the 8 sets dealt, nothing left.
C7_DealPartitionsDeck ==
  \A roomName \in RoomNames :
     (DealtRoom(roomName) /\ emitted.ev = "gameStarted")
     => LET room == rooms[roomName] IN
        /\ \A i \in 1..DealtPlayers :
              Len(room.players[i].hand) = 6 /\ Cardinality(HandOf(room, i)) = 6
        /\ \A i, k \in 1..DealtPlayers :
              i # k => HandOf(room, i) \cap HandOf(room, k) = {}
        /\ UNION { HandOf(room, i) : i \in 1..DealtPlayers } = AllCards
        /\ Cardinality(AllCards) = 48
        /\ \A src \in RandomSources :
              DeckRemainder(createAndShuffleDeck(src), DealtPlayers) = <<>>

\* C7 witness: a deal of a shuffled deck to 8 players
C7_ShuffledDeal ==
  \E roomName \in RoomNames :
     /\ DealtRoom(roomName)
     /\ emitted.ev = "gameStarted"
     /\ rooms[roomName].players[1].hand # SubSeq(OrderedDeck, 1, 6)

PlayerAt(room, id) == room.players[FindPlayer(room.players, id)]

IsPlayer(room, id) == \E i \in 1..Len(room.players) : room.players[i].id = id

\* the six conditions of a request
SixConditions(room, s, t, card) ==
  LET requester == PlayerAt(room, s)
      target    == PlayerAt(room, t)
  IN  /\ t # s
      /\ target.team # requester.team
      /\ requester.hand # <<>>
      /\ target.hand # <<>>
      /\ \E c \in SeqToSet(requester.hand) :
            c.suit = card.suit /\ c.setType = card.setType
      /\ card \notin SeqToSet(requester.hand)

RequestEvents ==
  { ErrorTo("Invalid card request"), RoomEvent("gameUpdate") }

\* C9: a request by the turn holder is accepted when the six conditions hold
\* and rejected with "Invalid card request", changing nothing, when one fails.
C9_AcceptedIffSixConditions ==
  [][ \A s \in Sockets, t \in AskTargets, card \in AskCards, roomName \in RoomNames :
        ( /\ emitted' \in RequestEvents
          /\ roomName \in DOMAIN rooms
          /\ IsPlayer(rooms[roomName], s) /\ IsPlayer(rooms[roomName], t)
          /\ TurnIs(rooms[roomName], s)
          /\ RequestCard(s, roomName, t, card) )
        => IF SixConditions(rooms[roomName], s, t, card)
             THEN emitted' = RoomEvent("gameUpdate")
             ELSE emitted' = ErrorTo("Invalid card request") /\ rooms' = rooms ]_vars

\* C9 witness: after an accepted request, a request has been found invalid
C9_InvalidAfterValid ==
  /\ emitted = ErrorTo("Invalid card request")
  /\ requests >= 1

\* C10: an accepted request hands the turn to the target; the card moves from
\* the target's hand to the requester's exactly when the target held it, and
\* otherwise no hand changes.
C10_TurnAndCardAfterRequest ==
  [][ \A s \in Sockets, t \in AskTargets, card \in AskCards, roomName \in RoomNames :
        ( /\ emitted' = RoomEvent("gameUpdate")
          /\ roomName \in DOMAIN rooms
          /\ RequestCard(s, roomName, t, card) )
        => LET before == rooms[roomName]
               after  == rooms'[roomName]
               ri     == FindPlayer(before.players, s)
               ti     == FindPlayer(before.players, t)
           IN  /\ TurnIs(after, t)
               /\ IF card \in HandOf(before, ti)
                    THEN /\ after.players[ri].hand = Append(before.players[ri].hand, card)
                         /\ HandOf(after, ti) = HandOf(before, ti) \ {card}
                         /\ Len(after.players[ti].hand) = Len(before.players[ti].hand) - 1
                         /\ \A i \in 1..Len(before.players) :
                               i \notin {ri, ti} => after.players[i] = before.players[i]
                    ELSE after.players = before.players ]_vars

\* C10 witness: a request for a card the target did not hold has passed the turn
C10_TurnPassedWithoutCard ==
  \E roomName \in RoomNames :
     /\ DealtRoom(roomName)
     /\ requests = 1
     /\ \A i \in 1..DealtPlayers : Len(rooms[roomName].players[i].hand) = 6
     /\ ~TurnIs(rooms[roomName], rooms[roomName].players[1].id)

(* ------------------------------------------- the turn check, on any room *)
(* TurnSpec adds to the rooms of PlaySpec the same rooms before the deal,   *)
(* in which currentTurnPlayerId has never been written.                     *)

TurnInit ==
  \/ PlayInit
  \/ \E first \in TeamInputs, n \in {DealtPlayers, DealtPlayers + 1} :
        /\ rooms = [name \in {"r1"} |-> SeatedRoom(n, first)]
        /\ emitted = RoomEvent("roomUpdate")
        /\ running = TRUE
        /\ requests = 0

TurnSpec == TurnInit /\ [][PlayNext]_vars

\* C11: a requestCard (to a player of the room) or a declareSet by a player
\* of the room who does not hold the turn, or by any player while no turn has
\* been set, is answered with "Not your turn" and changes no room: a step
\* with any other outcome is no such call.
C11_OnlyTurnHolderActs ==
  [][ \/ emitted' = ErrorTo("Not your turn") /\ rooms' = rooms
      \/ \A s \in Sockets, roomName \in RoomNames :
            ( /\ roomName \in DOMAIN rooms
              /\ IsPlayer(rooms[roomName], s)
              /\ ~TurnIs(rooms[roomName], s) )
            => /\ \A t \in AskTargets, card \in AskCards :
                    IsPlayer(rooms[roomName], t)
                    => ~RequestCard(s, roomName, t, card)
               /\ \A d \in DeclareInputs :
                    ~DeclareSet(s, roomName, d[1], d[2]) ]_vars

\* C11 witness: after the turn has passed by a request, a player of a dealt
\* room has been told that it is not their turn
C11_RefusedOutOfTurn ==
  \E roomName \in RoomNames :
     /\ DealtRoom(roomName)
     /\ requests >= 1
     /\ emitted = ErrorTo("Not your turn")

\* the team a wrong declaration is given to
OpposingTeam(team) == IF team = "red" THEN "blue" ELSE "red"

MaxCaptured == 6

CapturedLogs ==
  UNION { [1..n -> { [team |-> t, suit |-> "hearts", setType |-> "lower"] :
                       t \in TeamInputs }] : n \in 0..(MaxCaptured - 1) }

WinInit ==
  \E captured \in CapturedLogs :
     /\ rooms = [name \in {"r1"} |->
                   [StartGameEffect(SeatedRoom(DealtPlayers, "red"), "keep")
                      EXCEPT !.capturedSets = [kind |-> "array", items |-> captured]]]
     /\ emitted = RoomEvent("gameStarted")
     /\ running = TRUE
     /\ requests = 0

DeclareWithin(k, maxLen) ==
  \E s \in Conns(k), roomName \in RoomNames, d \in DeclareInputs :
     /\ roomName \in DOMAIN rooms
     /\ CanPush(rooms[roomName])
        => Len(rooms[roomName].capturedSets.items) < maxLen
     /\ DeclareSet(s, roomName, d[1], d[2])

WinNext == DeclareWithin(NumSockets, MaxCaptured)

WinSpec == WinInit /\ [][WinNext]_vars

\* what the last evaluation of a room's log returned
WinnerIn(room) == IF Has(room, "winner") THEN room.winner ELSE Null

\* the rule of the win evaluation for counts r (red) and b (blue)
WinRule(w, r, b) ==
  /\ (w = "red")  <=> (r >= 3 /\ r > b)
  /\ (w = "blue") <=> (b >= 3 /\ b > r)
  /\ (w = "draw") <=> (r >= 3 /\ b >= 3 /\ r = b)
  /\ w \in {"red", "blue", "draw", Null}

\* C13 as stated: right after a declaration has evaluated the log, the winner
\* is the team with at least 3 entries and strictly more than the other, a
\* draw when both have at least 3 and as many, none otherwise; and 3 against
\* 2 gives no winner, 3 against 3 a draw, 3 against 1 the team with 3.
C13_WinEvaluationAsStated ==
  \A roomName \in DOMAIN rooms :
     emitted = RoomEvent("gameUpdate")
     => LET room == rooms[roomName]
            r    == CountTeam(room.capturedSets.items, "red")
            b    == CountTeam(room.capturedSets.items, "blue")
            w    == WinnerIn(room)
        IN  /\ WinRule(w, r, b)
            /\ ({r, b} = {3, 2}) => w = Null
            /\ (r = 3 /\ b = 3) => w = "draw"
            /\ (r = 3 /\ b = 1) => w = "red"
            /\ (b = 3 /\ r = 1) => w = "blue"

\* C13 amended: the same rule, under which 3 against 2 gives the team with 3
\* (3 against 3 a draw, 3 against 1 the team with 3).
C13_WinEvaluation ==
  \A roomName \in DOMAIN rooms :
     emitted = RoomEvent("gameUpdate")
     => LET room == rooms[roomName]
            r    == CountTeam(room.capturedSets.items, "red")
            b    == CountTeam(room.capturedSets.items, "blue")
            w    == WinnerIn(room)
        IN  /\ WinRule(w, r, b)
            /\ (r = 3 /\ b = 2) => w = "red"
            /\ (b = 3 /\ r = 2) => w = "blue"
            /\ (r = 3 /\ b = 3) => w = "draw"
            /\ (r = 3 /\ b = 1) => w = "red"
            /\ (b = 3 /\ r = 1) => w = "blue"

\* C13 witness: a log of 3 entries against 2 has been evaluated, with a winner
C13_ThreeAgainstTwo ==
  \E roomName \in DOMAIN rooms :
     /\ emitted = RoomEvent("gameUpdate")
     /\ CountTeam(rooms[roomName].capturedSets.items, "red") = 3
     /\ CountTeam(rooms[roomName].capturedSets.items, "blue") = 2
     /\ WinnerIn(rooms[roomName]) = "red"

(* ------------------------------------ requests and declarations together *)
(* RoundSpec runs the game handlers on the rooms of TurnSpec and on dealt   *)
(* rooms of 2 and of 8 players whose capturedSets is an empty array, the    *)
(* value declareSet is written for.                                         *)

\* the declarations RoundSpec lets a room record
MaxDeclared == 3

RoundInit ==
  \/ TurnInit
  \/ \E n \in {2, DealtPlayers} :
        /\ rooms = [name \in {"r1"} |->
                      [StartGameEffect(SeatedRoom(n, "red"), "keep")
                         EXCEPT !.capturedSets = [kind |-> "array", items |-> <<>>]]]
        /\ emitted = RoomEvent("gameStarted")
        /\ running = TRUE
        /\ requests = 0

RoundNext ==
  \/ DoStartGame(NumSockets)
  \/ DoRequestCard(NumSockets)
  \/ DeclareWithin(NumSockets, MaxDeclared)
  \/ DoClaimTurn(NumSockets)

RoundSpec == RoundInit /\ [][RoundNext]_vars

\* C14: in every state the turn holder of a room is either unset or the id of
\* a player of that room.
C14_TurnHolderIsPlayer ==
  \A roomName \in DOMAIN rooms :
     LET room == rooms[roomName] IN
     Has(room, "currentTurnPlayerId")
     => \/ room.currentTurnPlayerId = Null
        \/ IsPlayer(room, room.currentTurnPlayerId)

\* C14 witness: the turn has come back to the first player by a declaration
\* of the last one
C14_TurnWrappedAround ==
  \E roomName \in DOMAIN rooms :
     LET room == rooms[roomName] IN
     /\ CanPush(room)
     /\ Len(room.capturedSets.items) >= 2
     /\ ~Has(room, "winner")
     /\ requests = 0
     /\ TurnIs(room, room.players[1].id)

CreateRoomErrors ==
  { [ev |-> "error:createRoom", to |-> "actor",
     msg |-> "Player name and room name are required"],
    [ev |-> "error:createRoom", to |-> "actor", msg |-> "Room already exists"] }

\* C15: createRoom with an empty player or room name is refused as invalid
\* input, with a name already registered as already existing, both without
\* changing any room; otherwise it adds a room in status waiting whose only
\* player is the host, with the id of the creating connection, and leaves the
\* rooms already there as they were.
C15_CreateRoomOutcomes ==
  [][ (emitted' \in CreateRoomErrors \cup {ActorEvent("roomCreated")})
      => /\ emitted' \in CreateRoomErrors => rooms' = rooms
         /\ emitted' = ActorEvent("roomCreated")
            => /\ DOMAIN rooms \subseteq DOMAIN rooms'
               /\ \A n \in DOMAIN rooms : rooms'[n] = rooms[n]
               /\ Cardinality(DOMAIN rooms') = Cardinality(DOMAIN rooms) + 1
         /\ \A s \in {SockId(1), SockId(2)}, roomName \in RoomNames \cup {""},
               c \in Capacities :
               \A playerName \in {"", NameOf(s)} :
                  CreateRoom(s, playerName, roomName, c)
                  => IF playerName = "" \/ roomName = ""
                       THEN emitted'.msg = "Player name and room name are required"
                     ELSE IF roomName \in DOMAIN rooms
                       THEN emitted'.msg = "Room already exists"
                     ELSE /\ emitted' = ActorEvent("roomCreated")
                          /\ roomName \in DOMAIN rooms'
                          /\ rooms'[roomName].name = roomName
                          /\ rooms'[roomName].status = "waiting"
                          /\ Len(rooms'[roomName].players) = 1
                          /\ rooms'[roomName].players[1].id = s
                          /\ rooms'[roomName].players[1].name = playerName
                          /\ rooms'[roomName].players[1].isHost ]_vars

\* C15 witness: a second createRoom for a room that other players have joined
\* has been refused
C15_ExistingRoomKept ==
  \E roomName \in DOMAIN rooms :
     /\ emitted.msg = "Room already exists"
     /\ Len(rooms[roomName].players) >= 2

\* the messages of the error events
ErrorMessages ==
  { "Player name and room name are required", "Room already exists",
    "Room not found", "Room is full", "Player not found",
    "Only the admin can start the game", "Room is not full",
    "Teams must be balanced", "Not your turn", "Invalid card request",
    "You cannot claim the turn" }

\* C16: an action answered with an error leaves the registry and every room
\* as they were, and its only event is the error, sent to the acting
\* connection and not to the room.
C16_RejectionChangesNothing ==
  [][ emitted'.ev \in {"error", "error:createRoom"}
      => /\ emitted'.to = "actor"
         /\ emitted'.msg \in ErrorMessages
         /\ rooms' = rooms
         /\ running' = running ]_vars

\* C16 witness: a connection that is no player of a room with several players
\* has been refused
C16_StrangerRefused ==
  \E roomName \in DOMAIN rooms :
     /\ emitted = ErrorTo("Player not found")
     /\ Len(rooms[roomName].players) >= 2
     /\ \E i \in 1..Len(rooms[roomName].players) :
           rooms[roomName].players[i].team \in TeamInputs

\* the status, winner and game status a room shows
Outcome(room) ==
  <<room.status, WinnerIn(room),
    IF Has(room, "gameStatus") THEN room.gameStatus ELSE Null>>

Flagged(players, i) ==
  [k \in 1..Len(players) |->
     IF k = i THEN SetProp(players[k], "canClaimTurn", TRUE) ELSE players[k]]

ClaimInit ==
  \E hostFlag \in BOOLEAN, joinerFlag \in BOOLEAN :
     LET dealt   == StartGameEffect(SeatedRoom(2, "red"), "keep")
         first   == IF hostFlag THEN Flagged(dealt.players, 1) ELSE dealt.players
         flagged == IF joinerFlag THEN Flagged(first, 2) ELSE first
     IN  /\ rooms = [name \in {"r1"} |-> [dealt EXCEPT !.players = flagged]]
         /\ emitted = RoomEvent("gameStarted")
         /\ running = TRUE
         /\ requests = 0

ClaimNext ==
  \/ DoJoinRoom(NumSockets)
  \/ DoStartGame(NumSockets)
  \/ DoRequestCard(NumSockets)
  \/ DoDeclareSet(NumSockets)
  \/ DoClaimTurn(NumSockets)

ClaimSpec == ClaimInit /\ [][ClaimNext]_vars

MayClaim(player) == Has(player, "canClaimTurn") /\ player.canClaimTurn

\* C18: claimTurn by a player of the room whose canClaimTurn is true clears
\* that flag, gives that player the turn and changes nothing else; by a
\* player whose flag is false or absent it is refused with "You cannot claim
\* the turn"; and no step gives a player a true flag it did not have.
C18_ClaimTurnByFlag ==
  [][ /\ \A roomName \in DOMAIN rooms' :
           \A i \in 1..Len(rooms'[roomName].players) :
              MayClaim(rooms'[roomName].players[i])
              => /\ roomName \in DOMAIN rooms
                 /\ i <= Len(rooms[roomName].players)
                 /\ MayClaim(rooms[roomName].players[i])
      /\ emitted' \in {RoomEvent("gameUpdate"), ErrorTo("You cannot claim the turn")}
         => \A s \in Sockets, roomName \in RoomNames :
              ( /\ roomName \in DOMAIN rooms
                /\ IsPlayer(rooms[roomName], s)
                /\ ClaimTurn(s, roomName) )
              => LET before == rooms[roomName]
                     i      == FindPlayer(before.players, s)
                 IN  IF MayClaim(before.players[i])
                       THEN /\ emitted' = RoomEvent("gameUpdate")
                            /\ DOMAIN rooms' = DOMAIN rooms
                            /\ LET after == rooms'[roomName] IN
                               /\ TurnIs(after, s)
                               /\ after.players[i] =
                                    [before.players[i] EXCEPT !.canClaimTurn = FALSE]
                               /\ Len(after.players) = Len(before.players)
                               /\ \A k \in 1..Len(before.players) :
                                     k # i => after.players[k] = before.players[k]
                               /\ DOMAIN after = DOMAIN before \cup {"currentTurnPlayerId"}
                               /\ \A f \in DOMAIN before \ {"players", "currentTurnPlayerId"} :
                                     after[f] = before[f]
                       ELSE /\ emitted' = ErrorTo("You cannot claim the turn")
                            /\ rooms' = rooms ]_vars

\* C18 witness: the second player has claimed the turn from the first
C18_TurnClaimed ==
  \E roomName \in DOMAIN rooms :
     /\ emitted = RoomEvent("gameUpdate")
     /\ requests = 0
     /\ Len(rooms[roomName].players) >= 2
     /\ TurnIs(rooms[roomName], rooms[roomName].players[2].id)
     /\ ~MayClaim(rooms[roomName].players[2])

(* ---------------------------------------------------- two rooms together *)
(* TwoRoomSpec is the server from its start with two room names and two    *)
(* connections, each of which may be a player of both rooms.               *)

TwoRooms == {"r1", "r2"}

TwoConns == Conns(2)

TwoCreateRoom ==
  \E s \in TwoConns, roomName \in TwoRooms : CreateRoom(s, NameOf(s), roomName, 2)

\* a connection joins a room it is not yet a player of
TwoJoinRoom ==
  \E s \in TwoConns, roomName \in TwoRooms :
     /\ roomName \in DOMAIN rooms => FindPlayer(rooms[roomName].players, s) = 0
     /\ JoinRoom(s, NameOf(s), roomName)

TwoJoinTeam ==
  \E s \in TwoConns, roomName \in TwoRooms, team \in TeamInputs :
     JoinTeam(s, roomName, team)

TwoStartGame ==
  \E s \in TwoConns, roomName \in TwoRooms : StartGame(s, roomName)

TwoRequestCard ==
  \E s \in TwoConns, roomName \in TwoRooms, t \in TwoConns :
     RequestCard(s, roomName, t, Card("hearts", "ace", "lower"))

TwoDeclareSet ==
  \E s \in TwoConns, roomName \in TwoRooms :
     DeclareSet(s, roomName, "hearts", "lower")

TwoClaimTurn ==
  \E s \in TwoConns, roomName \in TwoRooms : ClaimTurn(s, roomName)

TwoNext ==
  \/ TwoCreateRoom
  \/ TwoJoinRoom
  \/ TwoJoinTeam
  \/ TwoStartGame
  \/ TwoRequestCard
  \/ TwoDeclareSet
  \/ TwoClaimTurn

TwoRoomSpec == Init /\ [][TwoNext]_vars

\* an action of connection s addressed to the room of that name
Addressed(s, roomName) ==
  \/ CreateRoom(s, NameOf(s), roomName, 2)
  \/ JoinRoom(s, NameOf(s), roomName)
  \/ \E team \in TeamInputs : JoinTeam(s, roomName, team)
  \/ StartGame(s, roomName)
  \/ \E t \in TwoConns : RequestCard(s, roomName, t, Card("hearts", "ace", "lower"))
  \/ DeclareSet(s, roomName, "hearts", "lower")
  \/ ClaimTurn(s, roomName)

\* C19: an action addressed to a room, accepted or refused, leaves every
\* other registered room registered and exactly as it was, also when the
\* acting connection is a player of both rooms; so the state of a room is the
\* result of the actions addressed to it alone.
C19_OtherRoomsUntouched ==
  [][ \A s \in TwoConns, roomName \in TwoRooms :
        Addressed(s, roomName)
        => \A n \in DOMAIN rooms \ {roomName} :
              n \in DOMAIN rooms' /\ rooms'[n] = rooms[n] ]_vars

\* C19 witness: one connection is a player of both rooms, on a different team
\* in each
C19_OnePlayerTwoRooms ==
  /\ DOMAIN rooms = TwoRooms
  /\ \E s \in TwoConns :
        /\ IsPlayer(rooms["r1"], s) /\ IsPlayer(rooms["r2"], s)
        /\ PlayerAt(rooms["r1"], s).team = "red"
        /\ PlayerAt(rooms["r2"], s).team = "blue"

(* ----------------------------------------------- joinTeam, any team value *)
(* joinTeam stores the team its payload names.  TeamSpec is the server from *)
(* its start with few connections and a payload that may name a team that   *)
(* is neither red nor blue.                                                 *)

TeamValues == TeamInputs \cup {"green"}

JoinAnyTeam(k) ==
  \E s \in Conns(k), roomName \in RoomNames, team \in TeamValues :
     JoinTeam(s, roomName, team)

TeamNext ==
  \/ DoCreateRoom({FewConns - 1})
  \/ DoJoinRoom(FewConns)
  \/ JoinAnyTeam(FewConns)
  \/ DoStartGame(FewConns)

TeamSpec == Init /\ [][TeamNext]_vars

\* C20: in every state the team of every player is one of the two team
\* identifiers, red and blue, which startGame, declareSet and the win
\* evaluation count, or unassigned (null for the host).
C20_TeamIsRedBlueOrUnassigned ==
  \A roomName \in DOMAIN rooms :
     \A i \in 1..Len(rooms[roomName].players) :
        rooms[roomName].players[i].team \in TeamInputs \cup {"unassigned", Null}

(* ------------------------------------------- joinRoom, by any connection *)
(* RejoinSpec is the server from its start with two connections, either of  *)
(* which may send joinRoom for a room whatever it has sent before.          *)

\* the players RejoinSpec lets a room take
MaxJoined == 3

JoinAgain(k) ==
  \E s \in Conns(k), roomName \in RoomNames :
     /\ roomName \in DOMAIN rooms => Len(rooms[roomName].players) < MaxJoined
     /\ JoinRoom(s, NameOf(s), roomName)

RejoinNext ==
  \/ DoCreateRoom({2})
  \/ JoinAgain(2)
  \/ DoJoinTeam(2)
  \/ DoStartGame(2)
  \/ DoRequestCard(2)

RejoinSpec == Init /\ [][RejoinNext]_vars

\* C21: in every state no two entries of a room's players have the same id,
\* also after the host's connection or a connection that has joined sends
\* joinRoom for the same room again.
C21_PlayerIdsUnique ==
  \A roomName \in DOMAIN rooms :
     \A i, k \in 1..Len(rooms[roomName].players) :
        i # k => rooms[roomName].players[i].id # rooms[roomName].players[k].id

\* C22: a startGame on a room whose game is being played or is finished deals
\* no hand again, does not give the turn back to the first player and changes
\* no status: it leaves the room as it was and announces no start.
C22_StartedGameNotRestarted ==
  [][ emitted' \in StartGameEvents
      => \A s \in Sockets, roomName \in RoomNames :
           ( /\ roomName \in DOMAIN rooms
             /\ \/ GameStatusIs(rooms[roomName], "playing")
                \/ GameStatusIs(rooms[roomName], "finished")
             /\ StartGame(s, roomName) )
           => /\ emitted' # RoomEvent("gameStarted")
              /\ rooms' = rooms ]_vars

\* C22 witness: the host of a finished game has asked to start it and has
\* been refused
C22_FinishedGameKept ==
  \E roomName \in DOMAIN rooms :
     /\ GameStatusIs(rooms[roomName], "finished")
     /\ Has(rooms[roomName], "winner")
     /\ emitted = ErrorTo("Only the admin can start the game")

====
